---- MODULE Spec2Model ----
(***************************************************************************)
(* Job queue of the business-insights backend: the processing_jobs table,  *)
(* the insights table and the runners that poll them.                      *)
(*   app/database.py      DatabaseManager  (store statements)              *)
(*   app/job_processor.py JobProcessor     (runner, pending/processing)    *)
(*   job_cron.py          JobCronProcessor (runner, not-started/in-progress)*)
(* Every store statement opens its own connection and commits when the     *)
(* `with` block exits; a connection or statement error is caught by the    *)
(* calling method, which logs it and returns its default.                  *)
(***************************************************************************)
EXTENDS Integers, FiniteSets, Sequences, TLC

\* ---------------------------------------------------------------- bounds
NJobs == 2

NRunners == 2

MaxInsights == 1

MaxResets == 4

MaxJobsLimit == 1

MaxFiles == 2

MaxSuggestions == 2

\* statements in the body of a generated analyze_data
MaxStatements == 2

\* insights handed to one call of the Result Writer
MaxRecords == 3

\* background tasks an AsyncJobProcessor creates in one run
MaxTasks == 4

\* ------------------------------------------------------ program constants
\* should_retry_job: "Allow up to 3 retries"
MaxRetries == 3

Jobs == 1..NJobs

Runners == 1..NRunners

NoJob == 0

NULL == "NULL"

Impls == {"processor", "cron"}

\* status written by the claim of each runner implementation
ProcessingWord(im) == IF im = "cron" THEN "in-progress" ELSE "processing"

\* status selected by the claim and written by reset_job_to_pending
PendingWord(im) == IF im = "cron" THEN "not-started" ELSE "pending"

\* what a files row offers: no uploaded row, a file_path, only an inline
\* payload (files_data), or both
FileKinds == {"none", "path", "payload", "both"}

VARIABLES
  impl,      \* which runner implementation the Runner processes execute
  jobs,      \* processing_jobs table: job id -> row
  files,     \* files row referenced by each job's file_id
  created,   \* the rows as the producer inserted them (never changes)
  insights,  \* insights table: number of result rows per job
  pc,        \* position of each Runner inside run_once
  cur,       \* the job a Runner's current run_once claimed (NoJob if none)
  loc,       \* locals of the current run_once / process_single_job call
  resets,    \* history: committed reset_job_to_pending per job, up to cap
  cap,       \* how many resets of a job the history distinguishes
  max_jobs,  \* --max-jobs of the run (0: None, unlimited)
  jobs_processed,      \* JobCronProcessor.jobs_processed of each Runner
  shutdown_requested,  \* a stop was requested from the Runner
  claims,    \* history: claims committed by each Runner while max_jobs is set
  sandbox,   \* one generate_analysis_code / execute_analysis_code call
  workflow,  \* one run_complete_workflow call
  call       \* one call of a function on arguments of its own

\* the job queue and its Runners
queueVars == <<impl, jobs, files, created, insights, pc, cur, loc, resets, cap,
               max_jobs, jobs_processed, shutdown_requested, claims>>

vars == <<queueVars, sandbox, workflow, call>>

\* what no step of a Runner changes
cfgVars == <<impl, cap, max_jobs, created, files, sandbox, workflow,
             call>>

\* what only the run loop changes
loopVars == <<jobs_processed, shutdown_requested, claims>>

\* no call in progress
CallIdle == [pc |-> "idle"]

\* locals at the start of run_once
Loc0 == [nfiles |-> 0, transient |-> FALSE, wf |-> "-", nins |-> 0,
         retry |-> FALSE, ret |-> "-", why |-> "-"]

\* ----------------------------------------------------- analysis sandbox
\* a file on disk: the extension of its name and what it holds
Exts == {"csv", "CSV", "xlsx", "txt"}

Contents == {"text", "workbook", "missing"}

FileArgs == [ext : Exts, content : Contents]

\* str.lower on the extensions of Exts
Lower(ext) == IF ext = "CSV" THEN "csv" ELSE ext

\* utils.detect_file_type
detect_file_type(ext) ==
  IF Lower(ext) = "csv" THEN "csv"
  ELSE IF Lower(ext) \in {"xlsx", "xls"} THEN "excel"
  ELSE "unknown"

\* pd.read_csv / pd.read_excel return a DataFrame
read_csv(f) == f.content = "text"

read_excel(f) == f.content = "workbook"

\* utils.load_dataframe returns a DataFrame (does not raise)
load_dataframe(f) ==
  IF detect_file_type(f.ext) = "csv" THEN read_csv(f)
  ELSE IF detect_file_type(f.ext) = "excel" THEN read_excel(f)
  ELSE FALSE

\* the loading loop of the code template and of the fallback routine:
\* `if path.endswith('.csv')` read_csv, else read_excel
RoutineLoads(fs) ==
  \A i \in 1..Len(fs) :
    IF fs[i].ext = "csv" THEN read_csv(fs[i]) ELSE read_excel(fs[i])

\* what the text handed to execute_analysis_code can be
CodeKinds == {"syntax_error", "no_function", "raises", "not_mapping",
              "template", "fallback"}

\* extract_code_from_response returns whatever the model wrote
SynthesizedCode == CodeKinds \ {"fallback"}

\* a returned object: whether it is a mapping, whether it has an `error`
\* key, whether it has the four result keys, and what these hold
ResultObject(err, four, m, kf, vis, rec) ==
  [mapping |-> TRUE, error |-> err, fields |-> four, metrics |-> m,
   key_findings |-> kf, visualizations |-> vis, recommendations |-> rec]

\* analyze_data returned something that is not a mapping (None, a list)
NotAMapping ==
  [mapping |-> FALSE, error |-> FALSE, fields |-> FALSE, metrics |-> {},
   key_findings |-> 0, visualizations |-> 0, recommendations |-> 0]

\* nothing returned yet
NoResult == [NotAMapping EXCEPT !.metrics = {"-"}]

\* the `except Exception` branch of execute_analysis_code
ExecutionFailed == ResultObject(TRUE, TRUE, {}, 1, 0, 1)

\* `analyze_data function not found in generated code`
FunctionNotFound == ResultObject(TRUE, FALSE, {}, 0, 0, 0)

\* execute_analysis_code(code, file_paths). get_safe_builtins has no
\* `Exception`, so the `except Exception` clause of the template and of the
\* fallback routine raises NameError when a load fails.
execute_analysis_code(code, fs) ==
  CASE code = "syntax_error" -> ExecutionFailed
    [] code = "no_function"  -> FunctionNotFound
    [] code = "raises"       -> ExecutionFailed
    [] code = "not_mapping"  -> NotAMapping
    [] code = "template"     ->
         IF RoutineLoads(fs)
           THEN ResultObject(FALSE, TRUE, {"computed"}, 1, 1, 1)
           ELSE ExecutionFailed
    [] code = "fallback"     ->
         IF RoutineLoads(fs)
           THEN ResultObject(FALSE, TRUE, {"total_records"}, 1, 0, 1)
           ELSE ExecutionFailed

\* outcomes of llm.invoke: a response, an exception, or no client (llm is
\* None and llm.invoke raises AttributeError)
LlmOutcomes == {"responds", "raises", "none"}

SandboxIdle == [pc |-> "idle", llm |-> "none", files |-> <<>>, code |-> "-",
                result |-> NoResult]

FileLists == UNION { [1..n -> FileArgs] : n \in 0..MaxFiles }

\* ------------------------------------------- generated code under exec
\* get_safe_builtins: the names of the restricted __builtins__ mapping
get_safe_builtins ==
  {"len", "range", "enumerate", "zip", "sum", "max", "min", "abs", "round",
   "str", "int", "float", "list", "dict", "print", "sorted", "any", "all",
   "__import__", "__name__"}

\* the other names of safe_globals: the five allowed libraries
safe_globals == {"pandas", "pd", "numpy", "np", "matplotlib", "plt",
                 "base64", "BytesIO"}

\* what a statement of analyze_data can be: a call of print, a call of
\* open, an import inside the function followed by a use of the module,
\* `import sys; sys.stdout = sys.__stdout__`, a division by zero, and a
\* call of pd.read_csv
Statements == {"print", "open", "import os", "import socket",
               "import subprocess", "swap stdout", "divide by zero",
               "pd.read_csv"}

\* the interpreter's state while the generated code runs: the stream
\* sys.stdout names, the lines written to the stream that was sys.stdout
\* before the call and to the StringIO, the primitives reached outside the
\* five libraries, and whether an exception is propagating
ExecEnv(out) == [stdout |-> out, terminal |-> 0, captured |-> 0,
                 reached |-> {}, raised |-> FALSE]

NameError(env) == [env EXCEPT !.raised = TRUE]

\* one statement run with __builtins__ = get_safe_builtins. A name that is
\* neither a local, a global nor a builtin raises NameError; the import
\* statement calls __builtins__['__import__'] and raises ImportError when
\* that is missing.
Statement(env, s) ==
  CASE s = "print" ->
         IF "print" \notin get_safe_builtins THEN NameError(env)
         ELSE IF env.stdout = "capture"
                THEN [env EXCEPT !.captured = @ + 1]
                ELSE [env EXCEPT !.terminal = @ + 1]
    [] s = "open" ->
         IF "open" \notin get_safe_builtins THEN NameError(env)
         ELSE [env EXCEPT !.reached = @ \cup {"filesystem"}]
    [] s \in {"import os", "import socket", "import subprocess"} ->
         IF "__import__" \notin get_safe_builtins THEN NameError(env)
         ELSE [env EXCEPT !.reached = @ \cup
                 CASE s = "import os"         -> {"filesystem", "process"}
                   [] s = "import socket"     -> {"network"}
                   [] s = "import subprocess" -> {"process"}]
    [] s = "swap stdout" ->
         IF "__import__" \notin get_safe_builtins THEN NameError(env)
         ELSE [env EXCEPT !.stdout = "terminal"]
    [] s = "divide by zero" -> [env EXCEPT !.raised = TRUE]
    [] s = "pd.read_csv" ->
         IF "pd" \notin safe_globals THEN NameError(env) ELSE env

RECURSIVE analyze_data(_, _, _)
\* the body of analyze_data from statement i on; an exception ends it
analyze_data(env, body, i) ==
  IF i > Len(body) \/ env.raised THEN env
  ELSE analyze_data(Statement(env, body[i]), body, i + 1)

\* generated text: whether it compiles, whether it defines analyze_data,
\* and the statements of analyze_data
GeneratedCode ==
  [compiles : BOOLEAN, defines : BOOLEAN,
   body : UNION { [1..n -> Statements] : n \in 0..MaxStatements }]

\* the inner try of execute_analysis_code, entered with sys.stdout naming
\* the StringIO: exec(code, ...) and the call of analyze_data
exec(code) ==
  IF ~code.compiles THEN [ExecEnv("capture") EXCEPT !.raised = TRUE]
  ELSE IF ~code.defines THEN ExecEnv("capture")
  ELSE analyze_data(ExecEnv("capture"), code.body, 1)

\* `finally: sys.stdout = old_stdout`
RestoreStdout(env) == [env EXCEPT !.stdout = "terminal"]

\* ------------------------------------------------------------- pipeline
\* files given to run_complete_workflow as paths: a CSV file, a CSV file
\* with an upper-case extension, a path with no file behind it, and a file
\* of an unsupported type
PathArgs ==
  { [ext |-> "csv", content |-> "text"], [ext |-> "CSV", content |-> "text"],
    [ext |-> "csv", content |-> "missing"], [ext |-> "txt", content |-> "text"] }

\* files given as file objects: with or without an inline payload
\* (files_data), and with no file_path or the directory of the caller's
\* file_path: an upload directory or the system's temporary directory
ObjectArgs == [files_data : BOOLEAN, file_path : {NULL, "/data/", "/tmp/"}]

\* the files argument: a list of paths or a list of file objects
FilesArguments ==
  UNION { [1..n -> PathArgs] \cup [1..n -> ObjectArgs] : n \in 0..MaxFiles }

\* `files and isinstance(files[0], dict)`
IsObjectList(fs) == Len(fs) > 0 /\ fs[1] \in ObjectArgs

\* a path of the pipeline: its directory, and temp marks a file that
\* create_temp_file_from_bytes made (NamedTemporaryFile, in the system's
\* temporary directory)
PathOf(f, dir, isTemp) ==
  [ext |-> f.ext, content |-> f.content, dir |-> dir, temp |-> isTemp]

\* the CSV file behind a file object
ObjectFile == [ext |-> "csv", content |-> "text"]

RECURSIVE file_objects_to_temp_paths(_)
\* utils.file_objects_to_temp_paths: the payload becomes a temporary file,
\* else the file_path is used, else the object is logged and skipped
file_objects_to_temp_paths(objs) ==
  IF objs = <<>> THEN <<>>
  ELSE LET o == Head(objs)
           rest == file_objects_to_temp_paths(Tail(objs))
       IN IF o.files_data THEN <<PathOf(ObjectFile, "/tmp/", TRUE)>> \o rest
          ELSE IF o.file_path # NULL
            THEN <<PathOf(ObjectFile, o.file_path, FALSE)>> \o rest
            ELSE rest

\* utils.cleanup_temp_files: the positions of the paths it unlinks, those
\* that hold '/tmp/' (or 'temp') and exist
cleanup_temp_files(file_paths) ==
  { i \in DOMAIN file_paths :
      file_paths[i].dir = "/tmp/" /\ file_paths[i].content # "missing" }

\* run_complete_workflow: the file_paths put into the initial state
FilePathsOf(fs) ==
  IF IsObjectList(fs) THEN file_objects_to_temp_paths(fs)
  ELSE [i \in 1..Len(fs) |-> PathOf(fs[i], "/data/", FALSE)]

\* run_complete_workflow: initial_state
InitialState(fs) ==
  [files |-> FilePathsOf(fs), business_description |-> "description",
   file_metadata |-> <<>>, business_understanding |-> "",
   help_suggestions |-> <<>>, file_mappings |-> <<>>,
   final_insights |-> <<>>, current_step |-> "initialized"]

\* create_ai_workflow: entry point and edges
Stages == <<"analyze_data", "understand_business", "map_files",
            "generate_insights">>

NextStage_SkipOnError(stage, st) ==
  IF stage = "understand_business"
       /\ st.current_step = "business_understanding_error"
    THEN "generate_insights"
    ELSE CASE stage = "analyze_data" -> "understand_business"
           [] stage = "understand_business" -> "map_files"
           [] stage = "map_files" -> "generate_insights"
           [] stage = "generate_insights" -> "END"

\* the node that follows `stage` once it returned state st
NextStage(stage, st) ==
  CASE stage = "analyze_data" -> "understand_business"
    [] stage = "understand_business" -> "map_files"
    [] stage = "map_files" -> "generate_insights"
    [] stage = "generate_insights" -> "END"

analyze_data_node_FailsTogether(st) ==
  [st EXCEPT
     !.file_metadata = [i \in 1..Len(st.files) |->
                          IF \A k \in 1..Len(st.files) :
                               load_dataframe(st.files[k])
                            THEN "summary" ELSE "error"],
     !.current_step = "analyze_data_complete"]

\* analyze_data_node: one metadata entry per file (the files of the list
\* have distinct paths), a summary or, when loading or summarising the
\* file raises, an error
analyze_data_node(st) ==
  [st EXCEPT
     !.file_metadata = [i \in 1..Len(st.files) |->
                          IF load_dataframe(st.files[i]) THEN "summary"
                                                         ELSE "error"],
     !.current_step = "analyze_data_complete"]

\* a help suggestion: its title and whether it is a mapping with title,
\* description and priority
Suggestion(t, ok) == [title |-> t, wellformed |-> ok]

\* the suggestion used when the client is missing or the reply is no JSON
DefaultSuggestions == <<Suggestion(1, TRUE)>>

\* the help_suggestions a parsed reply can hold: n suggestions, all well
\* formed or the one at position bad not
ParsedSuggestions ==
  { [i \in 1..n |-> Suggestion(i, i # bad)] :
      n \in 0..MaxSuggestions, bad \in 0..MaxSuggestions }

business_understanding_unavailable_MarkedComplete(st) ==
  [st EXCEPT !.business_understanding = "LLM not available",
             !.help_suggestions = DefaultSuggestions,
             !.current_step = "business_understanding_complete"]

\* understand_business_node, `llm is None`
business_understanding_unavailable(st) ==
  [st EXCEPT !.business_understanding = "LLM not available",
             !.help_suggestions = DefaultSuggestions,
             !.current_step = "business_understanding_error"]

\* response.content: JSON text holding a summary and suggestions, or text
\* that is no JSON
Replies ==
  { [json |-> TRUE,
     value |-> [business_understanding |-> "summary",
                help_suggestions |-> sugg]] : sugg \in ParsedSuggestions }
  \cup {[json |-> FALSE]}

\* understand_business_node: the fallback handed to safe_json_parse
BusinessFallback ==
  [business_understanding |-> "Analysis in progress...",
   help_suggestions |-> DefaultSuggestions]

safe_json_parse_NoFallback(text, fallback) ==
  IF text.json THEN text.value
  ELSE [business_understanding |-> "", help_suggestions |-> <<>>]

\* utils.safe_json_parse: json.loads(text), the fallback when it raises
\* JSONDecodeError or TypeError
safe_json_parse(text, fallback) ==
  IF text.json THEN text.value ELSE fallback

\* understand_business_node, the reply was used
business_understanding_complete(st, result) ==
  [st EXCEPT !.business_understanding = result.business_understanding,
             !.help_suggestions = result.help_suggestions,
             !.current_step = "business_understanding_complete"]

business_understanding_error_Unmarked(st) == st

\* understand_business_node, `except Exception`
business_understanding_error(st) ==
  [st EXCEPT !.current_step = "business_understanding_error"]

\* map_files_to_insights_node, the fallback of a failed model call:
\* `list(state["files"])[:1]`
FallbackMapping(st) == IF st.files = <<>> THEN <<>> ELSE <<st.files[1]>>

\* the relevant_files a mapping can name: none, the first file, all files
MappingChoices(st) == { <<>>, FallbackMapping(st), st.files }

\* map_files_to_insights_node, all suggestions mapped
file_mapping_complete(st, m) ==
  [st EXCEPT !.file_mappings = m, !.current_step = "file_mapping_complete"]

file_mapping_error_Erasing(st) ==
  [st EXCEPT !.help_suggestions = <<>>, !.current_step = "file_mapping_error"]

\* map_files_to_insights_node, outer `except Exception`
file_mapping_error(st) == [st EXCEPT !.current_step = "file_mapping_error"]

\* generate_insights_node: relevant_files of suggestion i, all files when
\* nothing is mapped
RelevantFiles(st, i) ==
  LET mapped == IF i \in DOMAIN st.file_mappings THEN st.file_mappings[i]
                                                ELSE <<>>
  IN IF mapped = <<>> THEN st.files ELSE mapped

\* generate_insights_node: the iteration for suggestion i raises (the
\* suggestion has no title or priority, or analysis_results is no mapping)
IterationRaises(st, codes, i) ==
  \/ ~st.help_suggestions[i].wellformed
  \/ ~execute_analysis_code(codes[i], RelevantFiles(st, i)).mapping

\* generate_insights_node: the insight built for suggestion i
InsightOf(st, codes, i) ==
  [title |-> st.help_suggestions[i].title,
   status |-> IF execute_analysis_code(codes[i], RelevantFiles(st, i)).error
                THEN "error" ELSE "success"]

\* generate_insights_node: iterations completed before the first raise
Completed(st, codes) ==
  LET n == Len(st.help_suggestions)
      R == { i \in 1..n : IterationRaises(st, codes, i) }
  IN IF R = {} THEN n
     ELSE (CHOOSE i \in R : \A k \in R : i <= k) - 1

generate_insights_node_SkipsFailed(st, codes) ==
  LET k == Completed(st, codes) IN
  [st EXCEPT
     !.final_insights =
        SelectSeq([i \in 1..k |-> InsightOf(st, codes, i)],
                  LAMBDA x : x.status = "success"),
     !.current_step = IF k = Len(st.help_suggestions)
                        THEN "insights_complete" ELSE "insights_error"]

\* generate_insights_node: both returns carry the insights built so far
generate_insights_node(st, codes) ==
  LET k == Completed(st, codes) IN
  [st EXCEPT
     !.final_insights = [i \in 1..k |-> InsightOf(st, codes, i)],
     !.current_step = IF k = Len(st.help_suggestions)
                        THEN "insights_complete" ELSE "insights_error"]

\* no state yet
NoState == [current_step |-> "-"]

NoWorkflowResult == [status |-> "-", error |-> "-", data |-> NoState]

SuccessResult(st) == [status |-> "success", error |-> "-", data |-> st]

ErrorResult_FinalData(st0, st) ==
  [status |-> "error", error |-> "text", data |-> st]

\* run_complete_workflow, `except Exception`: str(e) and the initial state
ErrorResult(st0, st) == [status |-> "error", error |-> "text", data |-> st0]

WorkflowIdle ==
  [pc |-> "idle", args |-> <<>>, llm |-> FALSE, state |-> NoState,
   initial_state |-> NoState, trace |-> <<>>, failed |-> {},
   reply |-> "-", result |-> NoWorkflowResult, deleted |-> {}]

\* ------------------------------------------- result writer, confidence
\* scores are counted in ten-thousandths: Unit is 1.0
Unit == 10000

\* what a key of an insight dict can hold: the key is missing, a value that
\* is neither an int nor a float, or a number
Absent == [kind |-> "absent", v |-> 0]

NonNumeric == [kind |-> "text", v |-> 0]

Number(x) == [kind |-> "number", v |-> x]

\* -0.5, 0, 0.7, 1, 1.01, 100 and 150
FieldValues ==
  {Absent, NonNumeric} \cup
  { Number(x) : x \in {0 - 5000, 0, 7000, Unit, 10100, 100 * Unit,
                       150 * Unit} }

\* _extract_confidence_score: confidence_keys
confidence_keys == <<"confidence", "confidence_score", "score", "certainty">>

\* an insight dict as the Result Writer reads it holds the four confidence
\* keys and whether key_findings, recommendations and error are truthy.
\* _extract_confidence_score: "Default confidence based on insight quality"
default_confidence(insight) ==
  IF insight.key_findings /\ insight.recommendations THEN 8500
  ELSE IF insight.error THEN 3000
  ELSE 7000

RECURSIVE confidence_from_keys(_, _)
\* _extract_confidence_score: the loop over confidence_keys from key i on
confidence_from_keys(insight, i) ==
  IF i > Len(confidence_keys) THEN default_confidence(insight)
  ELSE LET x == insight[confidence_keys[i]]
       IN IF x.kind = "number" /\ 0 <= x.v /\ x.v <= Unit THEN x.v
          ELSE IF x.kind = "number" /\ 0 <= x.v /\ x.v <= 100 * Unit
                 THEN x.v \div 100
          ELSE confidence_from_keys(insight, i + 1)

extract_confidence_score_FirstKeyOnly(insight) ==
  LET x == insight.confidence
  IN IF x.kind = "number" /\ 0 <= x.v /\ x.v <= Unit THEN x.v
     ELSE IF x.kind = "number" /\ 0 <= x.v /\ x.v <= 100 * Unit
            THEN x.v \div 100
     ELSE default_confidence(insight)

\* DatabaseManager._extract_confidence_score
extract_confidence_score(insight) == confidence_from_keys(insight, 1)

\* calculate_insight_confidence before `max(0.1, min(0.95, confidence))`,
\* from which fields of analysis_results are non-empty and whether it has
\* an `error` key, the executive summary (missing, at most 50 characters,
\* longer) and whether next_steps is non-empty
confidence_points(analysis_results, business_insights) ==
  5000
  + (IF analysis_results.metrics THEN 1500 ELSE 0)
  + (IF analysis_results.key_findings THEN 1000 ELSE 0)
  + (IF analysis_results.visualizations THEN 1000 ELSE 0)
  + (IF analysis_results.recommendations THEN 1000 ELSE 0)
  + (IF business_insights.executive_summary = "long" THEN 500 ELSE 0)
  + (IF business_insights.next_steps THEN 500 ELSE 0)
  - (IF analysis_results.error THEN 3000 ELSE 0)

calculate_insight_confidence_Unclamped(analysis_results, business_insights) ==
  confidence_points(analysis_results, business_insights)

\* workflow_nodes.calculate_insight_confidence
calculate_insight_confidence(analysis_results, business_insights) ==
  LET confidence == confidence_points(analysis_results, business_insights)
      capped == IF confidence <= 9500 THEN confidence ELSE 9500
  IN IF capped >= 1000 THEN capped ELSE 1000

\* insight dicts handed to the Result Writer: explicit scores 0.9, 0.7 and
\* 0.5, a percentage 50, and dicts with no score
Scored(x) ==
  [confidence |-> Number(x), confidence_score |-> Number(x),
   score |-> Absent, certainty |-> Absent,
   key_findings |-> TRUE, recommendations |-> TRUE, error |-> FALSE]

Unscored(complete, err) ==
  [confidence |-> Absent, confidence_score |-> Absent,
   score |-> Absent, certainty |-> Absent,
   key_findings |-> complete, recommendations |-> complete, error |-> err]

WrittenDicts ==
  {Scored(9000), Scored(7000), Scored(5000), Scored(50 * Unit),
   Unscored(TRUE, FALSE), Unscored(FALSE, TRUE)}

RECURSIVE total_confidence(_, _)
\* save_analysis_results: total_confidence after the insights from i on
total_confidence(final_insights, i) ==
  IF i > Len(final_insights) THEN 0
  ELSE extract_confidence_score(final_insights[i])
         + total_confidence(final_insights, i + 1)

overall_confidence_OffByOne(total, count) ==
  IF count > 0 THEN <<total, count + 1>> ELSE <<7000, 1>>

\* save_analysis_results: total_confidence / confidence_count, kept as the
\* fraction <<numerator, denominator>>
overall_confidence(total, count) ==
  IF count > 0 THEN <<total, count>> ELSE <<7000, 1>>

\* DatabaseManager.save_analysis_results: nothing when there are no
\* insights, else one row with all insights and the overall confidence
DatabaseManager_save_analysis_results(rows, final_insights) ==
  IF final_insights = <<>> THEN rows
  ELSE Append(rows,
              [content |-> final_insights,
               confidence_score |->
                 overall_confidence(total_confidence(final_insights, 1),
                                    Len(final_insights))])

\* JobCronProcessor.save_analysis_results: one INSERT per insight, with
\* insight.get('confidence', 0.8)
JobCronProcessor_save_analysis_results(rows, final_insights) ==
  rows \o [i \in 1..Len(final_insights) |->
             [content |-> <<final_insights[i]>>,
              confidence_score |->
                IF final_insights[i].confidence = Absent THEN <<8000, 1>>
                ELSE <<final_insights[i].confidence.v, 1>>]]

\* ----------------------------------------------------------------- inputs
\* rows a producer may have inserted (bd: business_description not NULL,
\* jt: job_type not NULL) with the files row the job refers to; a row that
\* was queued again after earlier failures keeps its retry_count and its
\* last error_message
JobShapes ==
  << [bd |-> TRUE,  jt |-> TRUE,  file |-> "path",    retry_count |-> 0,
      error_message |-> NULL],
     [bd |-> FALSE, jt |-> TRUE,  file |-> "both",    retry_count |-> 2,
      error_message |-> "previous"],
     [bd |-> TRUE,  jt |-> TRUE,  file |-> "none",    retry_count |-> 0,
      error_message |-> NULL],
     [bd |-> FALSE, jt |-> FALSE, file |-> "path",    retry_count |-> 0,
      error_message |-> NULL],
     [bd |-> TRUE,  jt |-> TRUE,  file |-> "path",    retry_count |-> MaxRetries,
      error_message |-> "previous"],
     [bd |-> TRUE,  jt |-> FALSE, file |-> "payload", retry_count |-> 0,
      error_message |-> NULL] >>

ShapeOf(j, o) == JobShapes[((j - 1 + o) % Len(JobShapes)) + 1]

\* the table holds NJobs consecutive rows of JobShapes
Offsets == { o \in 0..(Len(JobShapes) - 1) : o % NJobs = 0 }

\* creation times: newest first by id, or all equal
CreatedAtChoices ==
  { [j \in Jobs |-> NJobs + 1 - j], [j \in Jobs |-> 1] }

NewRow(shape, word, t) ==
  [status |-> word, retry_count |-> shape.retry_count, created_at |-> t,
   started_at |-> FALSE, completed_at |-> FALSE,
   error_message |-> shape.error_message,
   bd |-> shape.bd, jt |-> shape.jt]

\* the table as the producers left it and the Runners before their first poll
InitQueue(im, o, ca, word) ==
  /\ impl = im
  /\ jobs = [j \in Jobs |-> NewRow(ShapeOf(j, o), word, ca[j])]
  /\ files = [j \in Jobs |-> ShapeOf(j, o).file]
  /\ created = jobs
  /\ insights = [j \in Jobs |-> 0]
  /\ pc = [r \in Runners |-> "idle"]
  /\ cur = [r \in Runners |-> NoJob]
  /\ loc = [r \in Runners |-> Loc0]
  /\ resets = [j \in Jobs |-> 0]
  /\ jobs_processed = [r \in Runners |-> 0]
  /\ shutdown_requested = [r \in Runners |-> FALSE]
  /\ claims = [r \in Runners |-> 0]

InitStore ==
  /\ \E im \in Impls, o \in Offsets, ca \in CreatedAtChoices,
        word \in {"pending", "not-started"} : InitQueue(im, o, ca, word)
  /\ sandbox = SandboxIdle
  /\ workflow = WorkflowIdle
  /\ call = CallIdle

\* no Runner is started: the queue stays as the producers left it
InitQuiet ==
  /\ InitQueue("processor", 0, [j \in Jobs |-> 1], "pending")
  /\ cap = 1
  /\ max_jobs = 0

\* the history only tells whether a job was ever reset
Init == InitStore /\ cap = 1 /\ max_jobs = 0

\* the history counts the resets of a job up to MaxResets
InitRetry == InitStore /\ cap = MaxResets /\ max_jobs = 0

\* a run started with --max-jobs (or without), whose Runners may be stopped
InitStop == InitStore /\ cap = 1 /\ max_jobs \in 0..MaxJobsLimit

\* ------------------------------------------------------- store statements
\* rows locked by claim transactions that have not committed yet
Locked == { cur[r] : r \in { x \in Runners : pc[x] = "claiming" } }

Candidates_NoLock(t, locked, im) ==
  { j \in Jobs : t[j].status = PendingWord(im) }

\* WHERE status = <pending> ... FOR UPDATE SKIP LOCKED
Candidates(t, locked, im) ==
  { j \in Jobs : t[j].status = PendingWord(im) /\ j \notin locked }

Oldest_Unordered(t, C) == C

\* ORDER BY created_at ASC LIMIT 1 (any of the rows that tie)
Oldest(t, C) ==
  { j \in C : \A k \in C : t[j].created_at <= t[k].created_at }

ClaimRow_NoStart(t, j, im) == [t EXCEPT ![j].status = ProcessingWord(im)]

\* SET status = <processing>, started_at = CURRENT_TIMESTAMP
ClaimRow(t, j, im) ==
  [t EXCEPT ![j].status = ProcessingWord(im), ![j].started_at = TRUE]

\* the adapted job's business_description is not None
HasDescription(row, im) ==
  IF im = "cron" THEN row.jt ELSE row.bd \/ row.jt

\* number of paths get_file_paths returns for the job's file
get_file_paths(fk) == IF fk \in {"path", "both"} THEN 1 ELSE 0

update_job_status_AllRows(t, j, status, msg) ==
  [k \in Jobs |->
     IF status = "completed"
       THEN [t[k] EXCEPT !.status = status, !.completed_at = TRUE,
                         !.error_message = msg]
       ELSE [t[k] EXCEPT !.status = status, !.error_message = msg,
                         !.retry_count = @ + 1]]

\* DatabaseManager.update_job_status: UPDATE ... WHERE id = %s
update_job_status(t, j, status, msg) ==
  IF status = "completed"
    THEN [t EXCEPT ![j].status = status, ![j].completed_at = TRUE,
                   ![j].error_message = msg]
    ELSE IF status = "failed"
      THEN [t EXCEPT ![j].status = status, ![j].error_message = msg,
                     ![j].retry_count = @ + 1]
      ELSE [t EXCEPT ![j].status = status, ![j].error_message = msg]

should_retry_job(t, j) == t[j].retry_count < MaxRetries

reset_job_to_pending_KeepsError(t, j, im) ==
  [t EXCEPT ![j].status = PendingWord(im), ![j].started_at = FALSE]

reset_job_to_pending(t, j, im) ==
  [t EXCEPT ![j].status = PendingWord(im), ![j].started_at = FALSE,
            ![j].error_message = NULL]

\* rows added by save_analysis_results for n insights
save_analysis_results(ins, j, n, im) ==
  IF im = "cron"
    THEN [ins EXCEPT ![j] = @ + n]
    ELSE IF n = 0 THEN ins ELSE [ins EXCEPT ![j] = @ + 1]

\* ------------------------------------------------------------- run_once
RunOnceOnException_Escapes == "raised"

\* except Exception: log, return False
RunOnceOnException == "false"

\* value run_once returns once process_single_job returned `success`
RunOnceResult(im, success) ==
  IF im = "cron" THEN "true" ELSE IF success THEN "true" ELSE "false"

Return(r, ret, why) ==
  /\ pc' = [pc EXCEPT ![r] = "returned"]
  /\ cur' = [cur EXCEPT ![r] = NoJob]
  /\ loc' = [loc EXCEPT ![r] = [Loc0 EXCEPT !.ret = ret, !.why = why]]

\* `if self.max_jobs and self.jobs_processed >= self.max_jobs`
LimitReached(r) == max_jobs # 0 /\ jobs_processed[r] >= max_jobs

\* the checks at the head of JobCronProcessor.run_once; JobProcessor.run_once
\* has none
RunOnceProceeds(r) ==
  impl = "cron" => ~shutdown_requested[r] /\ ~LimitReached(r)

\* the condition of the `while` loop and the `break` after run_once
LoopContinues(r) ==
  /\ ~shutdown_requested[r]
  /\ impl = "cron" => ~LimitReached(r)

\* get_pending_job: the UPDATE ... WHERE id = (SELECT ... SKIP LOCKED)
\* executes; the chosen row stays locked until the transaction commits
ClaimExecute(r) ==
  /\ pc[r] = "idle"
  /\ RunOnceProceeds(r)
  /\ LET S == Oldest(jobs, Candidates(jobs, Locked, impl)) IN
       \/ /\ S # {}
          /\ \E j \in S :
               /\ pc' = [pc EXCEPT ![r] = "claiming"]
               /\ cur' = [cur EXCEPT ![r] = j]
          /\ UNCHANGED loc
       \/ /\ S = {}
          /\ Return(r, "false", "no_job")
  /\ UNCHANGED <<cfgVars, loopVars, jobs, insights, resets>>

\* get_pending_job: connecting or executing fails; return None
ClaimError(r) ==
  /\ pc[r] = "idle"
  /\ RunOnceProceeds(r)
  /\ Return(r, "false", "-")
  /\ UNCHANGED <<cfgVars, loopVars, jobs, insights, resets>>

\* get_pending_job: the `with` block exits and the claim commits
ClaimCommit(r) ==
  /\ pc[r] = "claiming"
  /\ jobs' = ClaimRow(jobs, cur[r], impl)
  /\ pc' = [pc EXCEPT ![r] = "claimed"]
  /\ claims' = IF claims[r] <= max_jobs /\ max_jobs # 0
                 THEN [claims EXCEPT ![r] = @ + 1]
                 ELSE claims
  /\ UNCHANGED <<cfgVars, jobs_processed, shutdown_requested, insights, cur,
                 loc, resets>>

\* get_pending_job: the commit fails, the transaction is rolled back
ClaimRollback(r) ==
  /\ pc[r] = "claiming"
  /\ Return(r, "false", "-")
  /\ UNCHANGED <<cfgVars, loopVars, jobs, insights, resets>>

\* process_single_job up to the file resolution
ProcessStart(r) ==
  /\ pc[r] = "claimed"
  /\ IF ~HasDescription(jobs[cur[r]], impl)
       THEN \* business_description[:100] raises before the try block
            Return(r, RunOnceOnException, "exception")
       ELSE \E ok \in BOOLEAN :
              /\ pc' = [pc EXCEPT ![r] = "resolved"]
              /\ loc' = [loc EXCEPT ![r].nfiles =
                           IF ok THEN get_file_paths(files[cur[r]]) ELSE 0,
                                    ![r].transient = ~ok]
              /\ UNCHANGED cur
  /\ UNCHANGED <<cfgVars, loopVars, jobs, insights, resets>>

\* `if not file_paths`: mark failed, return False
NoFiles(r) ==
  /\ pc[r] = "resolved"
  /\ loc[r].nfiles = 0
  /\ \E ok \in BOOLEAN :
       jobs' = IF ok THEN update_job_status(jobs, cur[r], "failed", "no_files")
                     ELSE jobs
  /\ Return(r, RunOnceResult(impl, FALSE), "-")
  /\ UNCHANGED <<cfgVars, loopVars, insights, resets>>

\* run_complete_workflow returns a tagged result
RunWorkflow(r) ==
  /\ pc[r] = "resolved"
  /\ loc[r].nfiles > 0
  /\ \/ \E n \in 0..MaxInsights :
          loc' = [loc EXCEPT ![r].wf = "success", ![r].nins = n]
     \/ loc' = [loc EXCEPT ![r].wf = "error"]
  /\ pc' = [pc EXCEPT ![r] = "ran"]
  /\ UNCHANGED <<cfgVars, loopVars, jobs, insights, cur, resets>>

\* an Exception propagates inside the try block of process_single_job
RaiseInTry(r) ==
  /\ pc[r] = "resolved"
  /\ loc[r].nfiles > 0
  /\ pc' = [pc EXCEPT ![r] = "except"]
  /\ UNCHANGED <<cfgVars, loopVars, jobs, insights, cur, loc, resets>>

\* status == 'success': save_analysis_results
SaveResults(r) ==
  /\ pc[r] = "ran"
  /\ loc[r].wf = "success"
  /\ \E ok \in BOOLEAN :
       insights' = IF ok
                     THEN save_analysis_results(insights, cur[r], loc[r].nins, impl)
                     ELSE insights
  /\ pc' = [pc EXCEPT ![r] = "saved"]
  /\ UNCHANGED <<cfgVars, loopVars, jobs, cur, loc, resets>>

\* status == 'success': update_job_status(completed), return True
MarkCompleted(r) ==
  /\ pc[r] = "saved"
  /\ \E ok \in BOOLEAN :
       jobs' = IF ok THEN update_job_status(jobs, cur[r], "completed", NULL)
                     ELSE jobs
  /\ Return(r, RunOnceResult(impl, TRUE), "-")
  /\ jobs_processed' = IF impl = "cron" /\ jobs_processed[r] < max_jobs
                         THEN [jobs_processed EXCEPT ![r] = @ + 1]
                         ELSE jobs_processed
  /\ UNCHANGED <<cfgVars, shutdown_requested, claims, insights, resets>>

\* status != 'success': update_job_status(failed, error), return False
WorkflowFailed(r) ==
  /\ pc[r] = "ran"
  /\ loc[r].wf = "error"
  /\ \E ok \in BOOLEAN :
       jobs' = IF ok THEN update_job_status(jobs, cur[r], "failed", "workflow")
                     ELSE jobs
  /\ Return(r, RunOnceResult(impl, FALSE), "-")
  /\ UNCHANGED <<cfgVars, loopVars, insights, resets>>

\* except Exception: should_retry_job reads retry_count (False on error)
ShouldRetry(r) ==
  /\ pc[r] = "except"
  /\ \E ok \in BOOLEAN :
       loc' = [loc EXCEPT ![r].retry =
                 IF ok THEN should_retry_job(jobs, cur[r]) ELSE FALSE]
  /\ pc' = [pc EXCEPT ![r] = "decided"]
  /\ UNCHANGED <<cfgVars, loopVars, jobs, insights, cur, resets>>

\* except Exception: reset_job_to_pending, return False
RetryReset(r) ==
  /\ pc[r] = "decided"
  /\ loc[r].retry
  /\ \E ok \in BOOLEAN :
       /\ jobs' = IF ok THEN reset_job_to_pending(jobs, cur[r], impl) ELSE jobs
       /\ resets' = IF ok /\ resets[cur[r]] < cap
                      THEN [resets EXCEPT ![cur[r]] = @ + 1]
                      ELSE resets
  /\ Return(r, RunOnceResult(impl, FALSE), "-")
  /\ UNCHANGED <<cfgVars, loopVars, insights>>

\* except Exception: update_job_status(failed, error), return False
RetryExhausted(r) ==
  /\ pc[r] = "decided"
  /\ ~loc[r].retry
  /\ \E ok \in BOOLEAN :
       jobs' = IF ok THEN update_job_status(jobs, cur[r], "failed", "exception")
                     ELSE jobs
  /\ Return(r, RunOnceResult(impl, FALSE), "-")
  /\ UNCHANGED <<cfgVars, loopVars, insights, resets>>

\* the caller of run_once takes the returned value and polls again
Poll(r) ==
  /\ pc[r] = "returned"
  /\ loc[r].ret # "raised"
  /\ LoopContinues(r)
  /\ pc' = [pc EXCEPT ![r] = "idle"]
  /\ loc' = [loc EXCEPT ![r] = Loc0]
  /\ UNCHANGED <<cfgVars, loopVars, jobs, insights, cur, resets>>

\* JobCronProcessor.run_once: shutdown requested or the job limit reached,
\* return False without a claim
RunOnceStopped(r) ==
  /\ pc[r] = "idle"
  /\ ~RunOnceProceeds(r)
  /\ Return(r, "false", "-")
  /\ UNCHANGED <<cfgVars, loopVars, jobs, insights, resets>>

\* the loop condition fails or the loop breaks on the job limit
LoopExit(r) ==
  /\ pc[r] = "returned"
  /\ loc[r].ret # "raised"
  /\ ~LoopContinues(r)
  /\ pc' = [pc EXCEPT ![r] = "stopped"]
  /\ loc' = [loc EXCEPT ![r] = Loc0]
  /\ UNCHANGED <<cfgVars, loopVars, jobs, insights, cur, resets>>

\* JobCronProcessor: signal_handler (SIGINT, SIGTERM, SIGHUP) or
\* stop_processing sets shutdown_requested; JobProcessor: stop_monitoring
\* clears self.running
StopRequest(r) ==
  /\ pc[r] # "stopped"
  /\ ~shutdown_requested[r]
  /\ shutdown_requested' = [shutdown_requested EXCEPT ![r] = TRUE]
  /\ UNCHANGED <<cfgVars, jobs_processed, claims, jobs, insights, pc, cur, loc,
                 resets>>

\* JobProcessor installs no signal handler: SIGINT raises KeyboardInterrupt
\* at the statement the main thread is executing; it is not an Exception,
\* so it passes every `except Exception` up to start_monitoring, which
\* breaks out of the loop. An open claim transaction is rolled back.
KeyboardInterrupt(r) ==
  /\ impl = "processor"
  /\ pc[r] # "stopped"
  /\ pc' = [pc EXCEPT ![r] = "stopped"]
  /\ cur' = [cur EXCEPT ![r] = NoJob]
  /\ loc' = [loc EXCEPT ![r] = Loc0]
  /\ UNCHANGED <<cfgVars, loopVars, jobs, insights, resets>>

Next ==
  \E r \in Runners :
    \/ ClaimExecute(r)
    \/ ClaimError(r)
    \/ ClaimCommit(r)
    \/ ClaimRollback(r)
    \/ ProcessStart(r)
    \/ NoFiles(r)
    \/ RunWorkflow(r)
    \/ RaiseInTry(r)
    \/ SaveResults(r)
    \/ MarkCompleted(r)
    \/ WorkflowFailed(r)
    \/ ShouldRetry(r)
    \/ RetryReset(r)
    \/ RetryExhausted(r)
    \/ Poll(r)

Spec == Init /\ [][Next]_vars

\* the Runners with a job limit, stop requests and interrupts
NextStop ==
  \/ Next
  \/ \E r \in Runners :
       \/ RunOnceStopped(r)
       \/ LoopExit(r)
       \/ StopRequest(r)
       \/ KeyboardInterrupt(r)

SpecStop == InitStop /\ [][NextStop]_vars

\* one call of generate_analysis_code followed by execute_analysis_code
InitSandbox ==
  /\ InitQuiet
  /\ call = CallIdle
  /\ \E l \in LlmOutcomes, fs \in FileLists :
       sandbox = [SandboxIdle EXCEPT !.pc = "called", !.llm = l, !.files = fs]
  /\ workflow = WorkflowIdle

\* generate_analysis_code: the model's text, or the fallback routine when
\* llm.invoke raises
GenerateCode ==
  /\ sandbox.pc = "called"
  /\ \E c \in CodeKinds :
       /\ IF sandbox.llm = "responds" THEN c \in SynthesizedCode
                                      ELSE c = "fallback"
       /\ sandbox' = [sandbox EXCEPT !.pc = "generated", !.code = c]
  /\ UNCHANGED <<queueVars, workflow, call>>

\* execute_analysis_code on the generated text
ExecuteCode ==
  /\ sandbox.pc = "generated"
  /\ sandbox' = [sandbox EXCEPT
                   !.pc = "executed",
                   !.result = execute_analysis_code(sandbox.code, sandbox.files)]
  /\ UNCHANGED <<queueVars, workflow, call>>

NextSandbox == GenerateCode \/ ExecuteCode

SpecSandbox == InitSandbox /\ [][NextSandbox]_vars

\* one call of run_complete_workflow(files, business_description)
InitWorkflow ==
  /\ InitQuiet
  /\ call = CallIdle
  /\ sandbox = SandboxIdle
  /\ \E fs \in FilesArguments, client \in BOOLEAN :
       workflow = [WorkflowIdle EXCEPT !.pc = "called", !.args = fs,
                                       !.llm = client]

\* the stage at the head of the graph returns state st
StageReturns(stage, st, didFail) ==
  workflow' = [workflow EXCEPT
                 !.pc = NextStage(stage, st),
                 !.state = st,
                 !.trace = Append(@, stage),
                 !.failed = IF didFail THEN @ \cup {stage} ELSE @]

\* understand_business_node returns state st after llm.invoke gave reply
BusinessReturns(st, reply, didFail) ==
  workflow' = [workflow EXCEPT
                 !.pc = NextStage("understand_business", st),
                 !.state = st,
                 !.trace = Append(@, "understand_business"),
                 !.failed = IF didFail THEN @ \cup {"understand_business"}
                                       ELSE @,
                 !.reply = reply]

\* run_complete_workflow up to ai_workflow_app.invoke(initial_state)
StartWorkflow ==
  /\ workflow.pc = "called"
  /\ workflow' = [workflow EXCEPT
                    !.pc = Stages[1],
                    !.state = InitialState(workflow.args),
                    !.initial_state = InitialState(workflow.args)]
  /\ UNCHANGED <<queueVars, sandbox, call>>

AnalyzeData ==
  /\ workflow.pc = "analyze_data"
  /\ StageReturns("analyze_data", analyze_data_node(workflow.state), FALSE)
  /\ UNCHANGED <<queueVars, sandbox, call>>

UnderstandBusiness ==
  /\ workflow.pc = "understand_business"
  /\ IF ~workflow.llm
       THEN StageReturns("understand_business",
                         business_understanding_unavailable(workflow.state),
                         TRUE)
       ELSE \/ \E text \in Replies :
                 BusinessReturns(
                   business_understanding_complete(
                     workflow.state, safe_json_parse(text, BusinessFallback)),
                   IF text.json THEN "json" ELSE "unparsable", FALSE)
            \/ BusinessReturns(business_understanding_error(workflow.state),
                               "raised", TRUE)
  /\ UNCHANGED <<queueVars, sandbox, call>>

MapFiles ==
  /\ workflow.pc = "map_files"
  /\ LET st == workflow.state
         n == Len(st.help_suggestions)
     IN IF \E i \in 1..n : ~st.help_suggestions[i].wellformed
          THEN StageReturns("map_files", file_mapping_error(st), TRUE)
          ELSE \E m \in [1..n -> MappingChoices(st)] :
                 /\ ~workflow.llm => \A i \in 1..n : m[i] = FallbackMapping(st)
                 /\ StageReturns("map_files", file_mapping_complete(st, m),
                                 FALSE)
  /\ UNCHANGED <<queueVars, sandbox, call>>

GenerateInsights ==
  /\ workflow.pc = "generate_insights"
  /\ LET st == workflow.state
         n == Len(st.help_suggestions)
     IN \E codes \in [1..n -> CodeKinds] :
          /\ ~workflow.llm => \A i \in 1..n : codes[i] = "fallback"
          /\ StageReturns("generate_insights",
                          generate_insights_node(st, codes),
                          Completed(st, codes) < n)
  /\ UNCHANGED <<queueVars, sandbox, call>>

\* run_complete_workflow, `finally`: the files removed when
\* temp_files_created is set
Finally ==
  IF IsObjectList(workflow.args)
    THEN cleanup_temp_files(workflow.initial_state.files)
    ELSE {}

\* ai_workflow_app.invoke returns: status success with the final state
InvokeReturns ==
  /\ workflow.pc = "END"
  /\ workflow' = [workflow EXCEPT !.pc = "returned",
                                  !.result = SuccessResult(workflow.state),
                                  !.deleted = Finally]
  /\ UNCHANGED <<queueVars, sandbox, call>>

\* an Exception leaves ai_workflow_app.invoke: status error
InvokeRaises ==
  /\ workflow.pc \in {Stages[i] : i \in 1..Len(Stages)}
  /\ workflow' = [workflow EXCEPT
                    !.pc = "returned",
                    !.result = ErrorResult(workflow.initial_state,
                                           workflow.state),
                    !.deleted = Finally]
  /\ UNCHANGED <<queueVars, sandbox, call>>

NextWorkflow ==
  \/ StartWorkflow
  \/ AnalyzeData
  \/ UnderstandBusiness
  \/ MapFiles
  \/ GenerateInsights
  \/ InvokeReturns
  \/ InvokeRaises

SpecWorkflow == InitWorkflow /\ [][NextWorkflow]_vars

SpecRetry == InitRetry /\ [][Next]_vars

\* the runners keep polling (start_monitoring / run_continuous loop for
\* ever), every step of an attempt returns, and the store lets a claim go
\* through again and again
SpecFair ==
  /\ Init
  /\ [][Next]_vars
  /\ WF_vars(Next)
  /\ \A r \in Runners :
       /\ WF_vars(ProcessStart(r) \/ NoFiles(r) \/ RunWorkflow(r)
                    \/ RaiseInTry(r) \/ SaveResults(r) \/ MarkCompleted(r)
                    \/ WorkflowFailed(r) \/ ShouldRetry(r) \/ RetryReset(r)
                    \/ RetryExhausted(r) \/ Poll(r))
       /\ SF_vars(ClaimExecute(r) /\ pc'[r] = "claiming")
       /\ SF_vars(ClaimCommit(r))

\* one call of one of the functions: execute_analysis_code on generated
\* text, with sys.stdout naming the terminal stream before the call;
\* _extract_confidence_score(insight); calculate_insight_confidence(
\* analysis_results, business_insights); save_analysis_results(job_id,
\* results) on a job with no result row, by the writer of either runner
\* implementation
InitCall ==
  /\ InitQuiet
  /\ sandbox = SandboxIdle
  /\ workflow = WorkflowIdle
  /\ \/ \E c \in GeneratedCode :
          call = [pc |-> "exec", code |-> c, env |-> ExecEnv("terminal"),
                  outcome |-> "-"]
     \/ \E d \in [confidence : FieldValues, confidence_score : FieldValues,
                  score : FieldValues, certainty : FieldValues,
                  key_findings : BOOLEAN, recommendations : BOOLEAN,
                  error : BOOLEAN] :
          call = [pc |-> "extract", insight |-> d, result |-> 0]
     \/ \E a \in [metrics : BOOLEAN, key_findings : BOOLEAN,
                  visualizations : BOOLEAN, recommendations : BOOLEAN,
                  error : BOOLEAN],
           b \in [executive_summary : {"none", "short", "long"},
                  next_steps : BOOLEAN] :
          call = [pc |-> "calculate", analysis_results |-> a,
                  business_insights |-> b, result |-> 0]
     \/ \E im \in Impls,
           l \in UNION { [1..n -> WrittenDicts] : n \in 0..MaxRecords } :
          call = [pc |-> "save", impl |-> im, insights |-> l, rows |-> <<>>,
                  stored |-> FALSE]

\* execute_analysis_code from `old_stdout = sys.stdout` to its return: how
\* the inner try ended, and `finally: sys.stdout = old_stdout`
ExecuteGenerated ==
  /\ call.pc = "exec"
  /\ call' = [call EXCEPT
                !.pc = "exec_returned",
                !.env = RestoreStdout(exec(call.code)),
                !.outcome = IF exec(call.code).raised THEN "exception"
                            ELSE IF ~call.code.defines THEN "missing"
                            ELSE "success"]
  /\ UNCHANGED <<queueVars, sandbox, workflow>>

ExtractConfidence ==
  /\ call.pc = "extract"
  /\ call' = [call EXCEPT !.pc = "extracted",
                          !.result = extract_confidence_score(call.insight)]
  /\ UNCHANGED <<queueVars, sandbox, workflow>>

CalculateConfidence ==
  /\ call.pc = "calculate"
  /\ call' = [call EXCEPT
                !.pc = "calculated",
                !.result = calculate_insight_confidence(call.analysis_results,
                                                        call.business_insights)]
  /\ UNCHANGED <<queueVars, sandbox, workflow>>

\* save_analysis_results: the transaction commits, or a store error is
\* caught and logged and nothing is written
SaveAnalysisResults ==
  /\ call.pc = "save"
  /\ \E ok \in BOOLEAN :
       call' = [call EXCEPT
                  !.pc = "saved",
                  !.stored = ok,
                  !.rows =
                    IF ~ok THEN @
                    ELSE IF call.impl = "cron"
                      THEN JobCronProcessor_save_analysis_results(@, call.insights)
                      ELSE DatabaseManager_save_analysis_results(@, call.insights)]
  /\ UNCHANGED <<queueVars, sandbox, workflow>>

NextCall ==
  \/ ExecuteGenerated
  \/ ExtractConfidence
  \/ CalculateConfidence
  \/ SaveAnalysisResults

SpecCall == InitCall /\ [][NextCall]_vars

\* ------------------------------------------------- AsyncJobProcessor
\* AsyncJobProcessor.__init__: `self.task = None`; tasks are the tasks
\* created so far on the event loop
InitAsync ==
  /\ InitQuiet
  /\ sandbox = SandboxIdle
  /\ workflow = WorkflowIdle
  /\ call = [pc |-> "async", task |-> 0, tasks |-> <<>>]

CreatesTask_Always(c) == TRUE

\* `if self.task is None or self.task.done()`
CreatesTask(c) ==
  IF c.task = 0 THEN TRUE ELSE c.tasks[c.task].state = "done"

\* start_background_processing (no await in its body: one step of the
\* event loop): asyncio.create_task(self._run_background())
StartBackground ==
  /\ call.pc = "async"
  /\ CreatesTask(call)
  /\ Len(call.tasks) < MaxTasks
  /\ call' = [call EXCEPT
                !.tasks = Append(@, [state |-> "created", cancelled |-> FALSE,
                                     thread |-> FALSE]),
                !.task = Len(call.tasks) + 1]
  /\ UNCHANGED <<queueVars, sandbox, workflow>>

\* stop_background_processing: `self.task.cancel()` asks the event loop to
\* throw CancelledError into the task at its next step
StopBackground ==
  /\ call.pc = "async"
  /\ call.task # 0
  /\ call.tasks[call.task].state # "done"
  /\ call' = [call EXCEPT !.tasks[call.task].cancelled = TRUE]
  /\ UNCHANGED <<queueVars, sandbox, workflow>>

\* _run_background: `await loop.run_in_executor(None, run_once)`, at the
\* first step of the task and after each sleep; run_once starts in a
\* thread of the pool
TaskRunOnce(t) ==
  /\ call.tasks[t].state \in {"created", "sleep", "backoff"}
  /\ ~call.tasks[t].cancelled
  /\ call' = [call EXCEPT !.tasks[t].state = "executor",
                          !.tasks[t].thread = TRUE]
  /\ UNCHANGED <<queueVars, sandbox, workflow>>

\* the run_once call returns in its thread; a thread is not interrupted
\* by the cancellation of the task that awaits it
ThreadReturns(t) ==
  /\ call.tasks[t].thread
  /\ call' = [call EXCEPT !.tasks[t].thread = FALSE]
  /\ UNCHANGED <<queueVars, sandbox, workflow>>

\* _run_background: the awaited call is over; sleep poll_interval, or
\* twice as long in `except Exception`
TaskSleeps(t) ==
  /\ call.tasks[t].state = "executor"
  /\ ~call.tasks[t].thread
  /\ ~call.tasks[t].cancelled
  /\ \E s \in {"sleep", "backoff"} :
       call' = [call EXCEPT !.tasks[t].state = s]
  /\ UNCHANGED <<queueVars, sandbox, workflow>>

\* the task is resumed with CancelledError: `except CancelledError: break`
\* inside the try, and the error leaves the coroutine when it is raised
\* by the sleep of the `except Exception` branch or before the first step
TaskCancelled(t) ==
  /\ call.tasks[t].state # "done"
  /\ call.tasks[t].cancelled
  /\ call' = [call EXCEPT !.tasks[t].state = "done"]
  /\ UNCHANGED <<queueVars, sandbox, workflow>>

NextAsync ==
  \/ StartBackground
  \/ StopBackground
  \/ \E t \in DOMAIN call.tasks :
       \/ TaskRunOnce(t)
       \/ ThreadReturns(t)
       \/ TaskSleeps(t)
       \/ TaskCancelled(t)

SpecAsync == InitAsync /\ [][NextAsync]_vars

TypeOK ==
  /\ impl \in Impls
  /\ \A j \in Jobs :
       /\ jobs[j].status \in {"pending", "processing", "not-started",
                              "in-progress", "completed", "failed"}
       /\ jobs[j].retry_count \in 0..(MaxRetries + 1)
       /\ insights[j] \in 0..MaxInsights
       /\ resets[j] \in 0..MaxResets
  /\ \A r \in Runners :
       /\ pc[r] \in {"idle", "claiming", "claimed", "resolved", "ran",
                     "saved", "except", "decided", "returned", "stopped"}
       /\ jobs_processed[r] \in 0..MaxJobsLimit
       /\ claims[r] \in 0..(MaxJobsLimit + 1)
       /\ shutdown_requested[r] \in BOOLEAN
       /\ cur[r] \in Jobs \cup {NoJob}

\* ------------------------------------------------------------ properties
\* the Runner's claim of j has committed and its attempt is still running
Holds(r, j) ==
  /\ cur[r] = j
  /\ pc[r] \in {"claimed", "resolved", "ran", "saved", "except", "decided"}

Holders(j) == { r \in Runners : Holds(r, j) }

\* the attempt of Runner r ends in this step
AttemptEnds(r) ==
  /\ pc[r] \in {"claimed", "resolved", "ran", "saved", "except", "decided"}
  /\ pc'[r] = "returned"

\* C1: with concurrent claimers a job is never held in processing by two
\* Runners at once; a job enters processing only from pending with no
\* holder, and it goes back to pending only by the reset of the Runner
\* that holds it, so a reset by the holder lies between any two claims.
C1_NoDoubleClaim ==
  /\ [](\A j \in Jobs : Cardinality(Holders(j)) <= 1)
  /\ [][\A j \in Jobs :
          /\ (jobs'[j].status = ProcessingWord(impl)
                /\ jobs[j].status # ProcessingWord(impl))
               => /\ jobs[j].status = PendingWord(impl)
                  /\ Holders(j) = {}
                  /\ \E r \in Runners : cur[r] = j /\ pc[r] = "claiming"
                                        /\ pc'[r] = "claimed"
          /\ (jobs'[j].status = PendingWord(impl)
                /\ jobs[j].status # PendingWord(impl))
               => /\ jobs[j].status = ProcessingWord(impl)
                  /\ \E r \in Runners : Holds(r, j) /\ pc'[r] = "returned"]_vars

\* a job that was reset by its holder is being processed again
C1_Witness ==
  \E j \in Jobs : resets[j] >= 1 /\ Holders(j) # {}

\* C2: the job a claim takes has the smallest created_at among the jobs
\* that are pending and not row-locked when the statement runs; locked rows
\* are skipped, and the statement finds nothing only when no pending job is
\* unlocked.
C2_OldestUnlockedFirst ==
  [][\A r \in Runners :
       LET C == { k \in Jobs : jobs[k].status = PendingWord(impl)
                               /\ \A x \in Runners :
                                    ~(pc[x] = "claiming" /\ cur[x] = k) }
       IN /\ (pc[r] = "idle" /\ pc'[r] = "claiming")
               => /\ cur'[r] \in C
                  /\ \A k \in C :
                       jobs[cur'[r]].created_at <= jobs[k].created_at
          /\ (pc[r] = "idle" /\ pc'[r] = "returned"
                /\ loc'[r].why = "no_job")
               => C = {}]_vars

\* a claimer took the next-oldest job while an older pending row was locked
\* by another claimer
C2_Witness ==
  \E r1, r2 \in Runners :
    /\ pc[r1] = "claiming" /\ pc[r2] = "claiming"
    /\ jobs[cur[r1]].created_at < jobs[cur[r2]].created_at

\* C3: a job created with retry_count 0 is reset to pending at most 3
\* times, and once those retries are used up it is failed with
\* retry_count = 3.
C3_RetryBound ==
  \A j \in Jobs :
    created[j].retry_count = 0
      => /\ resets[j] <= MaxRetries
         /\ (jobs[j].status = "failed" /\ resets[j] = MaxRetries)
              => jobs[j].retry_count = MaxRetries

\* C4: the exception handler of process_single_job resets the job to
\* pending, started_at and error_message cleared, iff the stored
\* retry_count is below 3, and otherwise marks it failed with the message.
C4_HandlerOutcome ==
  [][\A r \in Runners :
       (pc[r] \in {"except", "decided"} /\ pc'[r] = "returned")
         => LET j == cur[r] IN
              IF jobs[j].retry_count < MaxRetries
                THEN /\ jobs'[j].status = PendingWord(impl)
                     /\ ~jobs'[j].started_at
                     /\ jobs'[j].error_message = NULL
                     /\ jobs'[j].retry_count = jobs[j].retry_count
                ELSE /\ jobs'[j].status = "failed"
                     /\ jobs'[j].error_message = "exception"]_vars

\* C5: when run_complete_workflow returns status error the job is reset to
\* pending if its retry_count is below 3 and marked failed only otherwise.
C5_WorkflowErrorRetried ==
  [][\A r \in Runners :
       (pc[r] = "ran" /\ loc[r].wf = "error" /\ pc'[r] = "returned")
         => LET j == cur[r] IN
              IF jobs[j].retry_count < MaxRetries
                THEN jobs'[j].status = PendingWord(impl)
                ELSE jobs'[j].status = "failed"]_vars

\* C6: when file resolution yields no usable file the attempt ends with the
\* job failed and an error message stored, without a pipeline run, without
\* a result row and without a reset to pending.
C6_NoFilesFails ==
  [][\A r \in Runners :
       (pc[r] = "resolved" /\ loc[r].nfiles = 0 /\ pc'[r] # "resolved")
         => LET j == cur[r] IN
              /\ pc'[r] = "returned"
              /\ jobs'[j].status = "failed"
              /\ jobs'[j].error_message # NULL
              /\ insights'[j] = insights[j]]_vars

\* C7: a job becomes completed after a pipeline run that produced at least
\* one insight only when its result row is already in the insights table.
C7_ResultBeforeCompleted ==
  [][\A r \in Runners :
       (pc[r] = "saved" /\ loc[r].nins >= 1
          /\ jobs'[cur[r]].status = "completed")
         => insights[cur[r]] >= 1]_vars

C9_RunOnceReturnsBool ==
  \A r \in Runners :
    pc[r] = "returned" => loc[r].ret \in {"true", "false"}

\* run_once returned after the missing business description raised
C9_Witness ==
  \E r \in Runners :
    /\ pc[r] = "returned"
    /\ loc[r].why = "exception"
    /\ \E j \in Jobs : /\ ~HasDescription(jobs[j], impl)
                       /\ jobs[j].status = ProcessingWord(impl)

\* C10: an attempt that met a transient infrastructure error (store
\* unreachable during file resolution, model-service failure in a stage)
\* ends with the job reset to pending while retry_count is below 3.
C10_TransientRetried ==
  [][\A r \in Runners :
       (AttemptEnds(r) /\ loc[r].transient
          /\ jobs[cur[r]].retry_count < MaxRetries)
         => jobs'[cur[r]].status = PendingWord(impl)]_vars

\* C11: a stop requested while a job is in flight does not abort the job:
\* a Runner leaves its loop only between two run_once calls, never while
\* it holds a claimed job, and once the stop is requested and the attempt
\* has returned it starts no further claim.
C11_GracefulShutdown ==
  [][\A r \in Runners :
       /\ (pc[r] # "stopped" /\ pc'[r] = "stopped")
            => \A j \in Jobs : ~Holds(r, j)
       /\ (shutdown_requested[r] /\ pc[r] = "returned") => pc'[r] # "idle"
       /\ pc[r] = "stopped" => pc'[r] = "stopped"]_vars

\* the statuses of the documented life cycle
DocumentedStatuses == {"pending", "processing", "completed", "failed"}

\* C12: both runner implementations select jobs whose status is pending,
\* move them to processing, and write no status outside
\* {pending, processing, completed, failed}.
C12_StatusVocabulary ==
  [][/\ \A j \in Jobs :
          jobs'[j].status # jobs[j].status
            => jobs'[j].status \in DocumentedStatuses
     /\ \A r \in Runners :
          (pc[r] = "idle" /\ pc'[r] = "claiming")
            => jobs[cur'[r]].status = "pending"
     /\ \A r \in Runners :
          (pc[r] = "claiming" /\ pc'[r] = "claimed")
            => jobs'[cur[r]].status = "processing"]_vars

\* C13: with max_jobs = N a JobCronProcessor claims and runs at most N jobs
\* in one run.
C13_MaxJobsBound ==
  \A r \in Runners :
    (impl = "cron" /\ max_jobs # 0) => claims[r] <= max_jobs

StageNames == { Stages[i] : i \in 1..Len(Stages) }

\* the stages run so far are the first stages of the graph, in order
TraceIsPrefix ==
  /\ Len(workflow.trace) <= Len(Stages)
  /\ \A i \in 1..Len(workflow.trace) : workflow.trace[i] = Stages[i]

\* C14: every run executes analyze_data, understand_business, map_files and
\* generate_insights once each, in that order, and then finishes; whatever
\* marker a stage recorded, the stage after it is the next one to run.
C14_StageOrder ==
  /\ TraceIsPrefix
  /\ workflow.pc \in StageNames
       => /\ Len(workflow.trace) < Len(Stages)
          /\ workflow.pc = Stages[Len(workflow.trace) + 1]
  /\ (workflow.pc = "END" \/ workflow.result.status = "success")
       => workflow.trace = Stages

C14_Witness ==
  /\ workflow.pc = "returned"
  /\ workflow.result.status = "success"
  /\ workflow.trace = Stages
  /\ "understand_business" \in workflow.failed
  /\ workflow.result.data.current_step = "insights_complete"

\* the error marker of each stage that has one
ErrorMarker(stage) ==
  CASE stage = "understand_business" -> "business_understanding_error"
    [] stage = "map_files" -> "file_mapping_error"
    [] stage = "generate_insights" -> "insights_error"

\* C15: when a stage fails internally it returns with current_step set to
\* its error marker, the following stage runs next, and a run whose four
\* stages have run returns status success.
C15_StageErrorsContained ==
  /\ [](workflow.pc = "returned" /\ workflow.trace = Stages
          => workflow.result.status = "success")
  /\ [][\A stage \in workflow'.failed \ workflow.failed :
          /\ workflow'.state.current_step = ErrorMarker(stage)
          /\ workflow'.trace = Append(workflow.trace, stage)
          /\ workflow'.pc \in StageNames \cup {"END"}
          /\ workflow'.pc \in StageNames
               => workflow'.pc = Stages[Len(workflow'.trace) + 1]]_vars

C15_Witness ==
  /\ workflow.pc = "returned"
  /\ workflow.result.status = "success"
  /\ workflow.failed = {"map_files", "generate_insights"}
  /\ workflow.result.data.current_step = "insights_error"

\* C16: no stage erases or alters a field an earlier stage wrote: files and
\* business_description stay as in the initial state, file_metadata stays
\* after analyze_data, business_understanding and help_suggestions after
\* understand_business, file_mappings after map_files.
C16_StagesKeepEarlierFields ==
  /\ [](workflow.pc \notin {"idle", "called"}
          => /\ workflow.state.files = workflow.initial_state.files
             /\ workflow.state.business_description
                  = workflow.initial_state.business_description)
  /\ [](workflow.result.status = "success"
          => workflow.result.data = workflow.state)
  /\ [][LET a == workflow.state
            b == workflow'.state
            ran == { workflow.trace[i] : i \in 1..Len(workflow.trace) }
        IN /\ "analyze_data" \in ran => b.file_metadata = a.file_metadata
           /\ "understand_business" \in ran
                => /\ b.business_understanding = a.business_understanding
                   /\ b.help_suggestions = a.help_suggestions
           /\ "map_files" \in ran => b.file_mappings = a.file_mappings]_vars

C16_Witness ==
  /\ workflow.pc = "returned"
  /\ workflow.result.status = "success"
  /\ workflow.failed = {"generate_insights"}
  /\ workflow.state.final_insights # <<>>
  /\ workflow.state.file_mappings # <<>>
  /\ \E i \in 1..Len(workflow.state.file_metadata) :
       workflow.state.file_metadata[i] = "error"

\* C17: run_complete_workflow returns a result tagged success or error for
\* every files argument and stage outcome; an error result carries an error
\* text and the initial state as data.
C17_AlwaysTaggedResult ==
  workflow.pc = "returned"
    => /\ workflow.result.status \in {"success", "error"}
       /\ workflow.result.status = "error"
            => /\ workflow.result.error # "-"
               /\ workflow.result.data = workflow.initial_state

C17_Witness ==
  /\ workflow.pc = "returned"
  /\ workflow.result.status = "error"
  /\ IsObjectList(workflow.args)
  /\ workflow.state # workflow.initial_state

\* C18: execute_analysis_code always returns a well-formed result object:
\* a mapping that has the four result fields or an `error` field.
C18_WellFormedResult ==
  sandbox.pc = "executed"
    => /\ sandbox.result.mapping
       /\ sandbox.result.fields \/ sandbox.result.error

\* the routine did not run to its end: the text does not compile, defines
\* no analyze_data, or an error was raised while it ran
ExecutionFails(code, fs) ==
  \/ code \in {"syntax_error", "no_function", "raises"}
  \/ code \in {"template", "fallback"} /\ ~RoutineLoads(fs)

\* C19: when execution of the routine fails the result carries `error`
\* and empty defaults for the other four fields.
C19_EmptyDefaultsOnError ==
  (sandbox.pc = "executed" /\ ExecutionFails(sandbox.code, sandbox.files))
    => /\ sandbox.result.error
       /\ sandbox.result.fields
       /\ sandbox.result.metrics = {}
       /\ sandbox.result.key_findings = 0
       /\ sandbox.result.visualizations = 0
       /\ sandbox.result.recommendations = 0

\* every file of the list is one load_dataframe loads
Loadable(fs) == \A i \in 1..Len(fs) : load_dataframe(fs[i])

\* C20: when the model call fails the code is the fallback routine, and on
\* loadable files it returns no `error` and the single metric
\* total_records.
C20_FallbackSucceeds ==
  (sandbox.pc = "executed" /\ sandbox.llm # "responds"
     /\ Loadable(sandbox.files))
    => /\ sandbox.code = "fallback"
       /\ ~sandbox.result.error
       /\ sandbox.result.metrics = {"total_records"}

\* C21: generated code reaches no filesystem, network or process-spawning
\* primitive other than through the five libraries of safe_globals.
C21_NoPrimitiveReached ==
  call.pc = "exec_returned" => call.env.reached = {}

\* C22: whatever the outcome, on return sys.stdout is the stream it was
\* before the call and nothing the generated code printed was written to
\* that stream.
C22_StdoutRestored ==
  call.pc = "exec_returned"
    => /\ call.env.stdout = "terminal"
       /\ call.env.terminal = 0

\* C23: the Result Writer of either runner implementation writes exactly
\* one row holding all insights of the run when there is at least one
\* insight, and no row when there is none.
C23_OneAggregatedRow ==
  call.pc = "saved"
    => IF call.insights = <<>>
         THEN call.rows = <<>>
         ELSE /\ Len(call.rows) = 1
              /\ call.rows[1].content = call.insights

RECURSIVE SumOfConfidences(_, _)
\* the sum of the confidences of the insights at the positions of S
SumOfConfidences(final_insights, S) ==
  IF S = {} THEN 0
  ELSE LET i == CHOOSE x \in S : TRUE
       IN extract_confidence_score(final_insights[i])
            + SumOfConfidences(final_insights, S \ {i})

QualifyingKeys(insight) ==
  { i \in 1..Len(confidence_keys) :
      LET x == insight[confidence_keys[i]]
      IN x.kind = "number" /\ 0 <= x.v /\ x.v <= 100 * Unit }

\* C25: the result is the value of the first confidence key, in the order
\* confidence, confidence_score, score, certainty, that holds a number in
\* [0,1] (as it is) or a percentage in (1,100] (divided by 100); when no
\* key qualifies it is 0.85 with both findings and recommendations, else
\* 0.3 with an error, else 0.7; and it is always in [0,1].
C25_ExtractedConfidence ==
  call.pc = "extracted"
    => /\ call.result \in 0..Unit
       /\ LET d == call.insight
              Q == QualifyingKeys(d)
          IN IF Q # {}
               THEN LET k == CHOOSE i \in Q : \A j \in Q : i <= j
                        x == d[confidence_keys[k]].v
                    IN call.result = IF x <= Unit THEN x ELSE x \div 100
               ELSE call.result =
                      IF d.key_findings /\ d.recommendations THEN 8500
                      ELSE IF d.error THEN 3000
                      ELSE 7000

\* `confidence` holds 150 and `confidence_score` holds text, so the
\* percentage 1.01 of `score` is returned as 0.0101
C25_Witness ==
  /\ call.pc = "extracted"
  /\ call.insight.confidence = Number(150 * Unit)
  /\ call.insight.confidence_score = NonNumeric
  /\ call.insight.score = Number(10100)
  /\ call.result = 101

\* C26: calculate_insight_confidence returns a value between 0.1 and 0.95,
\* so within [0,1], for every combination of present and absent metrics,
\* findings, visualizations, recommendations, executive summary, next
\* steps and error.
C26_ConfidenceRange ==
  call.pc = "calculated" => /\ call.result >= 1000
                            /\ call.result <= 9500
                            /\ call.result \in 0..Unit

\* everything is present and there is no error: 1.05 is cut to 0.95
C26_Witness ==
  /\ call.pc = "calculated"
  /\ call.analysis_results =
       [metrics |-> TRUE, key_findings |-> TRUE, visualizations |-> TRUE,
        recommendations |-> TRUE, error |-> FALSE]
  /\ call.business_insights = [executive_summary |-> "long",
                               next_steps |-> TRUE]
  /\ call.result = 9500

\* C27: file resolution yields a usable file for every referenced uploaded
\* file that has an external path or an inline payload, so a job whose
\* only file has a payload and no path is not failed for having no files.
C27_PayloadFileUsable ==
  \A r \in Runners :
    (pc[r] = "resolved" /\ ~loc[r].transient /\ files[cur[r]] # "none")
      => loc[r].nfiles >= 1

\* C28: analyze_data_node leaves exactly one file_metadata entry per input
\* file, an error entry exactly for the files that failed to load and a
\* summary for every other file, whatever subset of the files fails.
C28_PerFileIsolation ==
  workflow.pc = "understand_business"
    => LET st == workflow.state
       IN /\ Len(st.file_metadata) = Len(st.files)
          /\ \A i \in 1..Len(st.files) :
               st.file_metadata[i]
                 = IF Loadable(<<st.files[i]>>) THEN "summary" ELSE "error"

\* the first file fails and the second one is profiled
C28_Witness ==
  /\ workflow.pc = "understand_business"
  /\ Len(workflow.state.files) = 2
  /\ workflow.state.file_metadata = <<"error", "summary">>

\* C29: when the reply of the model in understand_business cannot be
\* parsed, the stage ends with exactly the one generic suggestion and the
\* summary "Analysis in progress...", completes, and map_files is the node
\* that runs next (a run that returned at this point is one in which an
\* exception left map_files).
C29_UnparsableReplyFallback ==
  (workflow.reply = "unparsable" /\ workflow.trace = <<"analyze_data",
                                                       "understand_business">>)
    => /\ workflow.state.help_suggestions = <<Suggestion(1, TRUE)>>
       /\ workflow.state.business_understanding = "Analysis in progress..."
       /\ workflow.state.current_step = "business_understanding_complete"
       /\ workflow.pc \in {"map_files", "returned"}
       /\ workflow.pc = "returned" => workflow.result.status = "error"

C29_Witness ==
  /\ workflow.reply = "unparsable"
  /\ workflow.pc = "map_files"
  /\ Len(workflow.state.help_suggestions) = 1
  /\ workflow.state.business_understanding = "Analysis in progress..."

\* C30: when generate_insights ends with current_step insights_complete,
\* final_insights holds exactly one record per help suggestion, in the
\* order of the suggestions and with each suggestion's title.
C30_OneInsightPerSuggestion ==
  (workflow.state.current_step = "insights_complete")
    => LET st == workflow.state
       IN /\ Len(st.final_insights) = Len(st.help_suggestions)
          /\ \A i \in 1..Len(st.help_suggestions) :
               st.final_insights[i].title = st.help_suggestions[i].title

\* two suggestions, the analysis of the first one ended with an error
C30_Witness ==
  /\ workflow.state.current_step = "insights_complete"
  /\ Len(workflow.state.help_suggestions) = 2
  /\ Len(workflow.state.final_insights) = 2
  /\ workflow.state.final_insights[1].status = "error"
  /\ workflow.state.final_insights[2].title
       = workflow.state.help_suggestions[2].title

\* C31: when the processing of one suggestion fails inside
\* generate_insights (the suggestion lacks a field, or its analysis result
\* is no mapping), every other suggestion is still processed and has its
\* Insight Record in final_insights.
C31_FailedSuggestionIsolated ==
  [][ (workflow.pc = "generate_insights" /\ workflow'.pc = "END")
        => LET st == workflow.state
               n == Len(st.help_suggestions)
           IN \A codes \in [1..n -> CodeKinds] :
                ( /\ ~workflow.llm => \A i \in 1..n : codes[i] = "fallback"
                  /\ workflow'.state = generate_insights_node(st, codes) )
                  => \A i \in 1..n :
                       ~IterationRaises(st, codes, i)
                         => \E k \in DOMAIN workflow'.state.final_insights :
                              workflow'.state.final_insights[k].title
                                = st.help_suggestions[i].title ]_vars

\* the marker a stage records when it completed
CompletionMarker(stage) ==
  CASE stage = "analyze_data" -> "analyze_data_complete"
    [] stage = "understand_business" -> "business_understanding_complete"
    [] stage = "map_files" -> "file_mapping_complete"
    [] stage = "generate_insights" -> "insights_complete"

\* C32 as stated: at every point after the first stage has run,
\* current_step names the last stage that completed successfully, and it
\* never names a stage that failed.
C32_LastSuccessfulStage ==
  LET done == { i \in 1..Len(workflow.trace) :
                  workflow.trace[i] \notin workflow.failed }
  IN workflow.trace # <<>>
       => /\ \A stage \in workflow.failed :
               workflow.state.current_step # ErrorMarker(stage)
          /\ \A i \in done :
               (\A k \in done : k <= i)
                 => workflow.state.current_step
                      = CompletionMarker(workflow.trace[i])

\* C32, amended: at every point after the first stage has run,
\* current_step is the marker of the last stage that ran: its completion
\* marker when that stage completed, its error marker when it failed.
C32_LastStageMarker ==
  workflow.trace # <<>>
    => LET last == workflow.trace[Len(workflow.trace)]
       IN workflow.state.current_step
            = IF last \in workflow.failed THEN ErrorMarker(last)
                                          ELSE CompletionMarker(last)

\* map_files failed after understand_business had completed
C32_Witness ==
  /\ workflow.trace = <<"analyze_data", "understand_business", "map_files">>
  /\ workflow.failed = {"map_files"}
  /\ workflow.state.current_step = "file_mapping_error"

\* C33: completed and failed are terminal under the runners: once a job's
\* status is completed or failed, no claim, status update, result write or
\* reset of any runner changes its status, retry_count or error_message.
C33_TerminalStatuses ==
  [][\A j \in Jobs :
       jobs[j].status \in {"completed", "failed"}
         => /\ jobs'[j].status = jobs[j].status
            /\ jobs'[j].retry_count = jobs[j].retry_count
            /\ jobs'[j].error_message = jobs[j].error_message]_vars

\* a job a runner marked failed, while a runner that claimed another job
\* is about to write that job's status or to reset it
C33_Witness ==
  \E j, k \in Jobs, r \in Runners :
    /\ created[j].status = PendingWord(impl)
    /\ jobs[j].status = "failed"
    /\ cur[r] = k
    /\ k # j
    /\ pc[r] \in {"saved", "decided"}

\* C34: when run_once returns, the job it claimed is no longer in
\* processing: it is completed, failed or reset to pending, also when a
\* store write of the status update failed and when the job's business
\* description is missing.
C34_NoJobLeftProcessing ==
  [][\A r \in Runners :
       AttemptEnds(r)
         => jobs'[cur[r]].status
              \in {"completed", "failed", PendingWord(impl)}]_vars

\* C36: in every reachable state of a job created with null timestamps,
\* no error_message and retry_count zero: processing implies started_at
\* is set; pending implies started_at and error_message are null;
\* completed implies completed_at is set and error_message is null; failed
\* implies error_message is set, completed_at is null and retry_count is
\* at least one.
C36_StatusFields ==
  \A j \in Jobs :
    ( /\ created[j].retry_count = 0
      /\ created[j].error_message = NULL
      /\ ~created[j].started_at
      /\ ~created[j].completed_at )
      => /\ jobs[j].status = ProcessingWord(impl) => jobs[j].started_at
         /\ jobs[j].status = PendingWord(impl)
              => ~jobs[j].started_at /\ jobs[j].error_message = NULL
         /\ jobs[j].status = "completed"
              => jobs[j].completed_at /\ jobs[j].error_message = NULL
         /\ jobs[j].status = "failed"
              => /\ jobs[j].error_message # NULL
                 /\ ~jobs[j].completed_at
                 /\ jobs[j].retry_count >= 1

\* a job created fresh that was reset to pending and then marked failed,
\* next to one that a runner holds in processing
C36_Witness ==
  \E j, k \in Jobs :
    /\ created[j].retry_count = 0
    /\ created[j].error_message = NULL
    /\ resets[j] > 0
    /\ jobs[j].status = "failed"
    /\ jobs[j].retry_count = 1
    /\ jobs[k].status = ProcessingWord(impl)
    /\ Holders(k) # {}

\* C35: while the runners keep polling and every attempt returns, every
\* job that is ever pending eventually reaches completed or failed: a job
\* that keeps failing is not reset to pending for ever and does not keep
\* later pending jobs from being claimed.
C35_PendingJobsFinish ==
  \A j \in Jobs :
    (jobs[j].status = PendingWord(impl))
      ~> (jobs[j].status \in {"completed", "failed"})

\* C37: when run_complete_workflow is given file objects, the files it
\* has deleted when it returns are exactly the temporary files it created:
\* every temporary file made from an inline payload is removed, on the
\* success and on the error path, and no file_path of the caller is.
C37_DeletesOwnTempFiles ==
  (workflow.pc = "returned" /\ IsObjectList(workflow.args))
    => workflow.deleted
         = { i \in DOMAIN workflow.initial_state.files :
               workflow.initial_state.files[i].temp }

\* C38: however start_background_processing and
\* stop_background_processing are called and interleaved, at most one
\* background task of an AsyncJobProcessor is active at a time: a task is
\* created only when there is none or the previous one is done, and a
\* cancelled task starts no further run_once call.
C38_OneBackgroundTask ==
  /\ [](Cardinality({ t \in DOMAIN call.tasks :
                        call.tasks[t].state # "done" }) <= 1)
  /\ [][ /\ Len(call'.tasks) > Len(call.tasks)
              => \A t \in DOMAIN call.tasks : call.tasks[t].state = "done"
         /\ \A t \in DOMAIN call.tasks :
              (call.tasks[t].cancelled /\ ~call.tasks[t].thread)
                => ~call'.tasks[t].thread ]_vars

\* the first task was cancelled while its run_once call was in a thread,
\* and a second task, created after the first was done, runs its own call
C38_Witness ==
  /\ call.pc = "async"
  /\ Len(call.tasks) = 2
  /\ call.tasks[1].state = "done"
  /\ call.tasks[1].thread
  /\ call.task = 2
  /\ call.tasks[2].state = "executor"

\* C39: when the model is unavailable for the whole run (no client, or
\* every call raises) and at least one input file is loadable, the run
\* still returns status success and final_insights holds exactly one
\* Insight Record, the one of the generic suggestion, produced by the
\* fallback routine with status success.
C39_FallbackInsight ==
  ( /\ workflow.pc = "returned"
    /\ workflow.trace = Stages
    /\ ~workflow.llm \/ workflow.reply = "raised"
    /\ \E i \in DOMAIN workflow.initial_state.files :
         load_dataframe(workflow.initial_state.files[i]) )
    => /\ workflow.result.status = "success"
       /\ Len(workflow.result.data.final_insights) = 1
       /\ workflow.result.data.final_insights[1].title
            = DefaultSuggestions[1].title
       /\ workflow.result.data.final_insights[1].status = "success"

\* C40: whenever the run returns status success for a file list with at
\* least one loadable file, final_insights is not empty.
C40_SuccessHasInsights ==
  ( /\ workflow.pc = "returned"
    /\ workflow.result.status = "success"
    /\ \E i \in DOMAIN workflow.initial_state.files :
         load_dataframe(workflow.initial_state.files[i]) )
    => workflow.result.data.final_insights # <<>>

====
